---------------------------- MODULE Spec2Model ----------------------------
(***************************************************************************)
(* The Chalk bridge of ra_hir_ty (crates/ra_hir_ty/src/traits/chalk.rs):   *)
(* the RustIrDatabase implementation of ChalkContext, the datum queries    *)
(* and the id conversions, over a database snapshot `db`.                  *)
(*                                                                         *)
(*   db     the immutable database snapshot the queries read                *)
(*   self_krate  the crate of the ChalkContext the solver talks to         *)
(*   known  the impl handles the solver has obtained from impls_for_trait   *)
(*   call   the last call made: its operation, requesting crate,            *)
(*          arguments and return value (or the panic that aborted it)       *)
(***************************************************************************)
EXTENDS Integers, Sequences, FiniteSets, TLC

VARIABLES db, self_krate, known, call

vars == <<db, self_krate, known, call>>

-----------------------------------------------------------------------------
(* Option and query outcomes *)

None == [tag |-> "None"]

Some(x) == [tag |-> "Some", value |-> x]

Ok(x) == [tag |-> "Ok", value |-> x]

\* A panic (expect / panic! / index out of bounds) aborts the query.
Panic(msg) == [tag |-> "Panic", msg |-> msg]

Range(s) == {s[n] : n \in DOMAIN s}

RECURSIVE SelectSeqBy(_, _)
\* The subsequence of s whose elements are in the set keep (Iterator::filter).
SelectSeqBy(s, keep) ==
    IF s = <<>> THEN <<>>
    ELSE IF Head(s) \in keep THEN <<Head(s)>> \o SelectSeqBy(Tail(s), keep)
    ELSE SelectSeqBy(Tail(s), keep)

-----------------------------------------------------------------------------
(* Bounds of the model *)

\* Number of ordinary (source-level) impls in the database.
NumImpls == 2

\* Largest number of generic parameters a definition declares.
MaxParams == 1

\* Largest number of bounds written on one return-position impl trait.
MaxBounds == 2

\* Largest interned integer behind a key or a handle.
MaxInternId == 4

-----------------------------------------------------------------------------
(* The universe of definitions *)

\* The crate graph: app depends on lib, lib depends on core.
Crates == {"app", "lib", "core"}

CrateDeps == [k \in Crates |-> CASE k = "app" -> {"lib"} [] k = "lib" -> {"core"} [] OTHER -> {}]

RECURSIVE TransitiveDepsFrom(_, _)
TransitiveDepsFrom(frontier, seen) ==
    LET next == (UNION {CrateDeps[k] : k \in frontier}) \ seen
    IN  IF next = {} THEN seen ELSE TransitiveDepsFrom(next, seen \cup next)

\* CrateGraph::transitive_deps, without the crate itself.
transitive_deps(krate) == TransitiveDepsFrom({krate}, {})

Traits == {"Eq", "FnOnce"}

ImplIds == 1 .. NumImpls

\* The crate that contains impl i: the first impl is in app, the second in
\* core (seen from app only through lib), the third in app again, ...
ImplCrateCycle == <<"app", "core", "app", "lib">>

impl_krate(i) == ImplCrateCycle[((i - 1) % Len(ImplCrateCycle)) + 1]

\* Type constructors (TypeCtor) that occur as heads of types.
AdtCtors == {"Point", "Vec3"}

IntCtors == {"i32", "u8"}

FloatCtors == {"f64"}

TypeCtors == AdtCtors \cup IntCtors \cup FloatCtors \cup {"Closure"}

\* Ty: an applied type constructor, a bound variable, or the unknown type.
TyApply(ctor) == [tag |-> "Apply", ctor |-> ctor, debruijn |-> 0, index |-> 0]

TyBound(debruijn, index) == [tag |-> "Bound", ctor |-> "", debruijn |-> debruijn, index |-> index]

TyUnknown == [tag |-> "Unknown", ctor |-> "", debruijn |-> 0, index |-> 0]

INNERMOST == 0

\* Self types an impl can be written for: an ADT, a primitive, or a type
\* parameter (a blanket impl).
ImplSelfTys == {TyApply("Point"), TyApply("Vec3"), TyApply("i32"), TyBound(INNERMOST, 0)}


\* The kinds of a canonical binder's variables (chalk_ir::VariableKind).
VariableKinds == {"TyGeneral", "TyInteger", "TyFloat", "Lifetime"}

-----------------------------------------------------------------------------
(* The database snapshot *)

\* The definitions of the fixture.  Eq is declared in lib and FnOnce (with its
\* associated type Output) in core; Point is an ADT of app and Vec3 one of
\* core; make and id are free functions of app.
trait_krate(trait_) == IF trait_ = "Eq" THEN "lib" ELSE "core"

adt_krate(adt) == IF adt = "Point" THEN "app" ELSE "core"

CallableDefs == {"make", "id"}

\* The type constructors that reach the solver as chalk_ir::AdtId: the ADTs
\* and the never type, which belongs to no crate.
StructCtors == AdtCtors \cup {"Never"}

TypeAliasIds ==
    {"FnOnce::Output", "impl1::Bogus", "impl1::Output", "impl2::Output", "impl2::Again", "Alias"}

\* type_alias.lookup(db).container
type_alias_container(type_alias) ==
    CASE type_alias = "FnOnce::Output" -> [tag |-> "TraitId", trait |-> "FnOnce", impl |-> 0]
      [] type_alias \in {"impl1::Bogus", "impl1::Output"} ->
            [tag |-> "ImplId", trait |-> "", impl |-> 1]
      [] type_alias \in {"impl2::Output", "impl2::Again"} -> [tag |-> "ImplId", trait |-> "", impl |-> 2]
      [] OTHER -> [tag |-> "ModuleId", trait |-> "", impl |-> 0]

\* db.type_alias_data(type_alias).name
type_alias_name(type_alias) ==
    CASE type_alias \in {"FnOnce::Output", "impl1::Output", "impl2::Output", "impl2::Again"} ->
            "Output"
      [] type_alias = "impl1::Bogus" -> "Bogus"
      [] OTHER -> "Alias"

\* db.trait_data(trait).associated_types(), in declaration order
associated_types(trait_) == IF trait_ = "FnOnce" THEN <<"FnOnce::Output">> ELSE <<>>

\* TraitData::associated_type_by_name
associated_type_by_name(trait_, name) ==
    LET found == SelectSeqBy(associated_types(trait_),
                             {ta \in TypeAliasIds : type_alias_name(ta) = name})
    IN  IF found = <<>> THEN None ELSE Some(Head(found))

FunctionItem(f) == [kind |-> "FunctionId", id |-> f]

TypeAliasItem(ta) == [kind |-> "TypeAliasId", id |-> ta]

\* db.impl_data(impl).items, in source order
impl_items(i) ==
    CASE i = 1 -> <<FunctionItem("impl1::eq"), TypeAliasItem("impl1::Bogus"),
                    TypeAliasItem("impl1::Output")>>
      [] i = 2 -> <<TypeAliasItem("impl2::Output"), FunctionItem("impl2::call_once"),
                    TypeAliasItem("impl2::Again")>>
      [] OTHER -> <<>>

\* db.impl_data(impl).is_negative
impl_is_negative(i) == i = 2

\* db.trait_data(trait).auto
trait_auto(trait_) == FALSE

\* A bound variable: its binder level and its index in that binder.
BoundVar(debruijn, index) == [debruijn |-> debruijn, index |-> index]

\* GenericPredicate: `self: Trait<args>`, or the error placeholder of a bound
\* that did not resolve.
Implemented(trait_, self, args) ==
    [tag |-> "Implemented", trait |-> trait_, self |-> self, args |-> args]

PredicateError == [tag |-> "Error", trait |-> "", self |-> BoundVar(0, 0), args |-> <<>>]

\* GenericPredicate::is_error
is_error(pred) == pred.tag = "Error"

\* The names of the attributes lang items are looked up by.
LangAttrs == {"sized", "copy", "clone", "drop", "fn_once", "fn_mut", "fn", "unsize",
              "eq", "deref", "owned_box"}

\* LangItemTarget: the trait, the struct or the function a lang item names.
LangTrait(trait_) == [kind |-> "TraitId", id |-> trait_]

LangStruct(adt) == [kind |-> "StructId", id |-> adt]

\* The return-position impl-trait records of the fixture: `fn make() -> impl
\* Eq` (one opaque type, one bound on it) and `fn id`, which has none.
MakeImplTraits ==
    [impl_traits |-> << [bounds |-> <<Implemented("Eq", BoundVar(0, 0), <<>>)>>] >>,
     num_binders |-> 0]

\* The database of the fixture: the first impl is `impl Eq for Point` (app),
\* the second `impl Eq for Vec3` (core); further impls are blanket impls of Eq.
DefaultDb ==
    [ impl_trait   |-> [i \in ImplIds |-> Some("Eq")],
      impl_self_ty |-> [i \in ImplIds |->
                          CASE i = 1 -> TyApply("Point")
                            [] i = 2 -> TyApply("Vec3")
                            [] OTHER -> TyBound(INNERMOST, 0)],
      \* the number of parameters a trait, an ADT, an impl or a function declares
      params       |-> [trait |-> 1, adt |-> 0, impl |-> 0, function |-> 1],
      \* hir_def::lang_item::lang_attr(trait)
      lang_attr    |-> [t \in Traits |-> IF t = "FnOnce" THEN Some("fn_once") ELSE None],
      \* db.lang_item(krate, attr)
      lang_item    |-> [k \in Crates |-> [a \in LangAttrs |->
                          IF a = "fn_once" THEN Some(LangTrait("FnOnce")) ELSE None]],
      \* db.return_type_impl_traits(func)
      return_type_impl_traits |->
                       [f \in CallableDefs |-> IF f = "make" THEN Some(MakeImplTraits) ELSE None] ]

\* The snapshots that differ from the fixture in what the impls implement and
\* for which self type: impl_trait(i) is None when the trait path of impl i
\* does not resolve.
ImplDbs ==
    { [DefaultDb EXCEPT !.impl_trait = c[1], !.impl_self_ty = c[2]] :
        c \in { x \in [ImplIds -> {None} \cup {Some(t) : t \in Traits}]
                        \X [ImplIds -> ImplSelfTys] :
                  \A i \in ImplIds : x[1][i] = None => x[2][i] = DefaultDb.impl_self_ty[i] } }

\* The snapshots that differ in how many parameters the definitions of each
\* kind declare, and in which impls have a trait reference that resolves.
DatumDbs ==
    { [DefaultDb EXCEPT !.params = ps,
                        !.impl_trait = it] :
        ps \in [trait : 0 .. MaxParams, adt : 0 .. MaxParams,
                impl : 0 .. MaxParams, function : 0 .. MaxParams],
        it \in [ImplIds -> {None} \cup {Some(t) : t \in Traits}] }

\* The bound lists of a return-position impl trait: up to MaxBounds bounds,
\* each a trait bound on the opaque type or an error placeholder.
OpaqueBounds ==
    {Implemented("Eq", BoundVar(0, 0), <<>>), Implemented("FnOnce", BoundVar(0, 0), <<>>),
     PredicateError}

BoundLists == UNION {[1 .. n -> OpaqueBounds] : n \in 0 .. MaxBounds}

\* The snapshots that differ in the impl-trait records of `make`: one or two
\* opaque types, or no record at all.
OpaqueDbs ==
    { [DefaultDb EXCEPT !.return_type_impl_traits["make"] = r] :
        r \in {None}
              \cup {Some([impl_traits |-> <<[bounds |-> b1]>>, num_binders |-> n]) :
                       b1 \in BoundLists, n \in 0 .. MaxParams}
              \cup {Some([impl_traits |-> <<[bounds |-> b1], [bounds |-> b2]>>, num_binders |-> n]) :
                       b1 \in BoundLists, b2 \in BoundLists, n \in 0 .. MaxParams} }

\* What a crate's lang-item registry can hold for an attribute name.
LangItemTargets ==
    {None, Some(LangTrait("Eq")), Some(LangTrait("FnOnce")), Some(LangStruct("Point"))}

\* The snapshots that differ in the lang items of app for fn_once and copy
\* (the other crates keep the fixture's) and in the lang attribute of each
\* trait.
WellKnownDbs ==
    { [DefaultDb EXCEPT !.lang_item["app"]["fn_once"] = x,
                        !.lang_item["app"]["copy"] = y,
                        !.lang_attr = la] :
        x \in LangItemTargets, y \in LangItemTargets,
        la \in [Traits -> {None, Some("fn_once"), Some("copy"), Some("eq")}] }

-----------------------------------------------------------------------------
(* method_resolution: fingerprints and the per-crate impl index *)

\* TyFingerprint::for_impl: the head constructor of an applied type.
TyFingerprint_for_impl(ty) ==
    IF ty.tag = "Apply" THEN Some(ty.ctor) ELSE None

ALL_INT_FPS == IntCtors

ALL_FLOAT_FPS == FloatCtors

\* The impls defined in one of `crates` whose trait reference resolves: the
\* index is built only from those.
IndexedImpls(d, crates) ==
    {i \in ImplIds : impl_krate(i) \in crates /\ d.impl_trait[i] # None}

\* db.trait_impls_in_crate(krate): the index of the crate's own impls.
trait_impls_in_crate(d, krate) == IndexedImpls(d, {krate})

\* db.trait_impls_in_deps(krate): the merged index of all transitive
\* dependencies.
trait_impls_in_deps(d, krate) == IndexedImpls(d, transitive_deps(krate))

\* TraitImpls::for_trait: every indexed impl of the trait.
for_trait(d, index, trait_) ==
    {i \in index : d.impl_trait[i] = Some(trait_)}

\* TraitImpls::for_trait_and_self_ty: the (trait, fingerprint) entry.
for_trait_and_self_ty(d, index, trait_, fp) ==
    {i \in index : /\ d.impl_trait[i] = Some(trait_)
                   /\ TyFingerprint_for_impl(d.impl_self_ty[i]) = Some(fp)}

-----------------------------------------------------------------------------
(* traits::Impl and its interning *)

\* Impl::ImplDef(id)
ImplDef(i) == [tag |-> "ImplDef", id |-> i, trait |-> ""]

\* The built-in impl of a closure for one of the Fn traits.
ClosureFnTraitImpl(trait_) == [tag |-> "ClosureFnTraitImpl", id |-> 0, trait |-> trait_]

\* builtin::get_builtin_impls: the impls synthesized for (self type, second
\* parameter, trait); a closure implements the Fn traits.
get_builtin_impls(d, krate, ty, arg, trait_) ==
    IF ty.tag = "Apply" /\ ty.ctor = "Closure" /\ trait_ = "FnOnce"
    THEN {ClosureFnTraitImpl(trait_)}
    ELSE {}

\* ToChalk for Impl: the interned impl behind a chalk_ir::ImplId.
Impl_to_chalk(impl) == [ImplId |-> impl]

Impl_from_chalk(impl_id) == impl_id.ImplId

\* ToChalk for hir_def::TraitId: the chalk_ir::TraitId of a trait.
Trait_to_chalk(trait_) == [TraitId |-> trait_]

Trait_from_chalk(trait_id) == trait_id.TraitId

-----------------------------------------------------------------------------
(* RustIrDatabase::impls_for_trait *)

\* The kind of the self type when it is a variable of the innermost binder.
binder_kind(ty, binders) ==
    IF ty.tag = "Bound" /\ ty.debruijn = INNERMOST
       /\ binders[ty.index + 1] \in {"TyGeneral", "TyInteger", "TyFloat"}
    THEN Some(binders[ty.index + 1])
    ELSE None

\* pruning_fps taking the fingerprint of the self type whatever its kind.
pruning_fps_of_head_only(ty, binders) ==
    LET self_ty_fp == TyFingerprint_for_impl(ty)
    IN  IF self_ty_fp = None THEN {} ELSE {self_ty_fp.value}

\* The fingerprints the lookup is restricted to; empty: unrestricted.
pruning_fps(ty, binders) ==
    LET self_ty_fp == TyFingerprint_for_impl(ty)
        kind == binder_kind(ty, binders)
    IN  CASE kind = Some("TyInteger") -> ALL_INT_FPS
          [] kind = Some("TyFloat") -> ALL_FLOAT_FPS
          [] OTHER -> IF self_ty_fp = None THEN {} ELSE {self_ty_fp.value}

\* collect_impl_defs with the restricted lookup consulting in_self alone.
collect_impl_defs_pruned_self_only(d, krate, trait_, fps) ==
    LET in_deps == trait_impls_in_deps(d, krate)
        in_self == trait_impls_in_crate(d, krate)
        impl_maps == {in_deps, in_self}
    IN  IF fps = {}
        THEN UNION {for_trait(d, crate_impl_defs, trait_) : crate_impl_defs \in impl_maps}
        ELSE UNION {for_trait_and_self_ty(d, in_self, trait_, fp) : fp \in fps}

\* The ordinary impls collected from the two indices, in_deps and in_self.
collect_impl_defs(d, krate, trait_, fps) ==
    LET in_deps == trait_impls_in_deps(d, krate)
        in_self == trait_impls_in_crate(d, krate)
        impl_maps == {in_deps, in_self}
    IN  IF fps = {}
        THEN UNION {for_trait(d, crate_impl_defs, trait_) : crate_impl_defs \in impl_maps}
        ELSE UNION {for_trait_and_self_ty(d, crate_impl_defs, trait_, fp) :
                       crate_impl_defs \in impl_maps, fp \in fps}

\* impls_for_trait scanning the impls of the crate and of its dependencies
\* themselves instead of their indices.
impls_for_trait_scanning_impls(d, krate, trait_id, parameters, binders) ==
    LET trait_ == Trait_from_chalk(trait_id)
        ty == parameters[1]
        fps == pruning_fps(ty, binders)
        scanned == {i \in ImplIds : impl_krate(i) \in {krate} \cup transitive_deps(krate)}
        result == {Impl_to_chalk(ImplDef(id)) :
                      id \in {i \in scanned : d.impl_trait[i] \in {None, Some(trait_)}}}
        arg == IF Len(parameters) >= 2 THEN Some(parameters[2]) ELSE None
    IN  result \cup {Impl_to_chalk(i) : i \in get_builtin_impls(d, krate, ty, arg, trait_)}

\* impls_for_trait without the built-in impls.
impls_for_trait_without_builtin(d, krate, trait_id, parameters, binders) ==
    LET trait_ == Trait_from_chalk(trait_id)
        ty == parameters[1]
        fps == pruning_fps(ty, binders)
    IN  {Impl_to_chalk(ImplDef(id)) : id \in collect_impl_defs(d, krate, trait_, fps)}

\* The set of impl handles returned for (trait_id, parameters, binders) to a
\* context of crate `krate`: the indexed impls, then the built-in ones.
impls_for_trait(d, krate, trait_id, parameters, binders) ==
    LET trait_ == Trait_from_chalk(trait_id)
        ty == parameters[1]
        fps == pruning_fps(ty, binders)
        result == {Impl_to_chalk(ImplDef(id)) : id \in collect_impl_defs(d, krate, trait_, fps)}
        arg == IF Len(parameters) >= 2 THEN Some(parameters[2]) ELSE None
    IN  result \cup {Impl_to_chalk(i) : i \in get_builtin_impls(d, krate, ty, arg, trait_)}

\* The goals the solver asks impls for: the parameters of a trait reference
\* (self type first) and the kinds of the canonical binder.
SolverGoals ==
    {[parameters |-> <<TyApply(c)>>, binders |-> <<>>] : c \in {"Point", "Vec3", "Closure"}}
    \cup {[parameters |-> <<TyBound(INNERMOST, 0)>>, binders |-> <<k>>] :
              k \in {"TyGeneral", "TyInteger", "TyFloat"}}
    \cup {[parameters |-> <<TyBound(INNERMOST + 1, 0)>>, binders |-> <<"TyInteger">>]}

-----------------------------------------------------------------------------
(* Generic parameters, binders and where clauses *)

GenericDef(kind, id) == [kind |-> kind, id |-> id]

ParamNames(prefix, n) == [k \in 1 .. n |-> <<prefix, k>>]

RECURSIVE generics(_, _)
\* utils::generics: the parameters of a definition, the parent's first.  A
\* trait has the implicit parameter Self before the declared ones; an
\* associated type alias declares none and inherits its container's.
generics(d, def) ==
    CASE def.kind = "TraitId" -> << <<"Self", 0>> >> \o ParamNames("trait", d.params.trait)
      [] def.kind = "AdtId" -> ParamNames("adt", d.params.adt)
      [] def.kind = "ImplId" -> ParamNames("impl", d.params.impl)
      [] def.kind = "FunctionId" -> ParamNames("function", d.params.function)
      [] def.kind = "TypeAliasId" ->
            LET container == type_alias_container(def.id)
            IN  CASE container.tag = "TraitId" -> generics(d, GenericDef("TraitId", container.trait))
                  [] container.tag = "ImplId" -> generics(d, GenericDef("ImplId", container.impl))
                  [] OTHER -> <<>>

\* Substs::bound_vars: one bound variable per generic parameter.
bound_vars(generic_params, debruijn) ==
    [k \in 1 .. Len(generic_params) |-> TyBound(debruijn, k - 1)]

\* mapping::make_binders: the value under num_vars type variables.
make_binders(value, num_vars) == [num_binders |-> num_vars, value |-> value]

\* Shift::shifted_in: every free variable moves one binder level out.
shift_var(v) == [v EXCEPT !.debruijn = v.debruijn + 1]

shifted_in(pred) ==
    [pred EXCEPT !.self = shift_var(pred.self),
                 !.args = [k \in DOMAIN pred.args |-> shift_var(pred.args[k])]]

Ty_shifted_in(ty) == IF ty.tag = "Bound" THEN TyBound(ty.debruijn + 1, ty.index) ELSE ty

\* ToChalk for GenericPredicate: a quantified where clause with no variables
\* of its own.
GenericPredicate_to_chalk(pred) == make_binders(shifted_in(pred), 0)

\* db.generic_predicates(def): `P0: Eq` on the first parameter, and a bound
\* that did not resolve.
generic_predicates(d, def) ==
    IF Len(generics(d, def)) = 0 THEN <<>>
    ELSE <<Implemented("Eq", BoundVar(INNERMOST, 0), <<>>), PredicateError>>

\* mapping::convert_where_clauses: the predicates that resolved.
convert_where_clauses(d, def, substs) ==
    LET preds == generic_predicates(d, def)
        kept == SelectSeqBy(preds, {q \in Range(preds) : ~is_error(q)})
    IN  [k \in 1 .. Len(kept) |-> GenericPredicate_to_chalk(kept[k])]

\* ToChalk for Ty
Ty_to_chalk(ty) == [chalk_ty |-> ty]

\* ToChalk for TypeAliasId: the chalk AssocTypeId of an associated type.
TypeAlias_to_chalk(type_alias) == [AssocTypeId |-> type_alias]

TypeAlias_from_chalk(id) == id.AssocTypeId

\* traits::AssocTyValue and its chalk handle
AssocTyValue_TypeAlias(type_alias) == [tag |-> "TypeAlias", id |-> type_alias]

AssocTyValue_ClosureFnTraitImplOutput == [tag |-> "ClosureFnTraitImplOutput", id |-> ""]

AssocTyValue_to_chalk(value) == [AssociatedTyValueId |-> value]

AssocTyValue_from_chalk(id) == id.AssociatedTyValueId

\* ToChalk for TypeCtor: the chalk AdtId of an interned type constructor.
TypeCtor_to_chalk(ctor) == [AdtId |-> ctor]

TypeCtor_from_chalk(struct_id) == struct_id.AdtId

\* ToChalk for CallableDef
CallableDef_to_chalk(f) == [FnDefId |-> f]

CallableDef_from_chalk(fn_def_id) == fn_def_id.FnDefId

\* db.impl_trait(impl).value as a chalk trait reference
TraitRef_to_chalk(trait_, self_ty) ==
    [trait_id |-> Trait_to_chalk(trait_), self_ty |-> Ty_to_chalk(self_ty)]

-----------------------------------------------------------------------------
(* The well-known trait tables *)

WellKnownTraits == {"Sized", "Copy", "Clone", "Drop", "FnOnce", "FnMut", "Fn", "Unsize"}

\* well_known_trait_from_lang_attr with the arms of fn_mut and fn exchanged.
well_known_trait_from_lang_attr_fn_swapped(name) ==
    CASE name = "sized" -> Some("Sized")
      [] name = "copy" -> Some("Copy")
      [] name = "clone" -> Some("Clone")
      [] name = "drop" -> Some("Drop")
      [] name = "fn_once" -> Some("FnOnce")
      [] name = "fn_mut" -> Some("Fn")
      [] name = "fn" -> Some("FnMut")
      [] name = "unsize" -> Some("Unsize")
      [] OTHER -> None

well_known_trait_from_lang_attr(name) ==
    CASE name = "sized" -> Some("Sized")
      [] name = "copy" -> Some("Copy")
      [] name = "clone" -> Some("Clone")
      [] name = "drop" -> Some("Drop")
      [] name = "fn_once" -> Some("FnOnce")
      [] name = "fn_mut" -> Some("FnMut")
      [] name = "fn" -> Some("Fn")
      [] name = "unsize" -> Some("Unsize")
      [] OTHER -> None

lang_attr_from_well_known_trait(attr) ==
    CASE attr = "Sized" -> "sized"
      [] attr = "Copy" -> "copy"
      [] attr = "Clone" -> "clone"
      [] attr = "Drop" -> "drop"
      [] attr = "FnOnce" -> "fn_once"
      [] attr = "FnMut" -> "fn_mut"
      [] attr = "Fn" -> "fn"
      [] attr = "Unsize" -> "unsize"

-----------------------------------------------------------------------------
(* The datum queries *)

\* TypeCtor::krate: the crate of an ADT; the never type has none.
type_ctor_krate(ctor) == IF ctor \in AdtCtors THEN Some(adt_krate(ctor)) ELSE None

\* TypeCtor::as_generic_def
as_generic_def(ctor) == IF ctor \in AdtCtors THEN Some(GenericDef("AdtId", ctor)) ELSE None

\* TypeCtor::num_ty_params
num_ty_params(d, ctor) ==
    IF ctor \in AdtCtors THEN Len(generics(d, GenericDef("AdtId", ctor))) ELSE 0

\* trait_datum_query leaving every trait without a well-known tag.
trait_datum_query_untagged(d, krate, trait_id) ==
    LET trait_ == Trait_from_chalk(trait_id)
        bound_vars_ == bound_vars(generics(d, GenericDef("TraitId", trait_)), INNERMOST)
        types == associated_types(trait_)
    IN  Ok([id |-> trait_id,
            binders |->
                make_binders([where_clauses |->
                                 convert_where_clauses(d, GenericDef("TraitId", trait_),
                                                       bound_vars_)],
                             Len(bound_vars_)),
            flags |-> [auto |-> trait_auto(trait_),
                       upstream |-> trait_krate(trait_) # krate,
                       non_enumerable |-> TRUE,
                       coinductive |-> FALSE,
                       marker |-> FALSE,
                       fundamental |-> FALSE],
            associated_ty_ids |-> [k \in 1 .. Len(types) |-> TypeAlias_to_chalk(types[k])],
            well_known |-> None])

trait_datum_query(d, krate, trait_id) ==
    LET trait_ == Trait_from_chalk(trait_id)
        generic_params == generics(d, GenericDef("TraitId", trait_))
        bound_vars_ == bound_vars(generic_params, INNERMOST)
        flags == [auto |-> trait_auto(trait_),
                  upstream |-> trait_krate(trait_) # krate,
                  non_enumerable |-> TRUE,
                  coinductive |-> FALSE,
                  marker |-> FALSE,
                  fundamental |-> FALSE]
        where_clauses == convert_where_clauses(d, GenericDef("TraitId", trait_), bound_vars_)
        types == associated_types(trait_)
        associated_ty_ids == [k \in 1 .. Len(types) |-> TypeAlias_to_chalk(types[k])]
        well_known == IF d.lang_attr[trait_] = None THEN None
                      ELSE well_known_trait_from_lang_attr(d.lang_attr[trait_].value)
    IN  Ok([id |-> trait_id,
            binders |-> make_binders([where_clauses |-> where_clauses], Len(bound_vars_)),
            flags |-> flags,
            associated_ty_ids |-> associated_ty_ids,
            well_known |-> well_known])

\* struct_datum_query taking every ADT of a crate that has one for local.
struct_datum_query_upstream_without_crate(d, krate, struct_id) ==
    LET type_ctor == TypeCtor_from_chalk(struct_id)
        num_params == num_ty_params(d, type_ctor)
        upstream == type_ctor_krate(type_ctor) = None
        generic_def == as_generic_def(type_ctor)
        where_clauses ==
            IF generic_def = None THEN <<>>
            ELSE convert_where_clauses(d, generic_def.value,
                                       bound_vars(generics(d, generic_def.value), INNERMOST))
        flags == [upstream |-> upstream, fundamental |-> FALSE, phantom_data |-> FALSE]
        variant == [fields |-> <<>>]
    IN  Ok([kind |-> "Struct",
            id |-> struct_id,
            binders |-> make_binders([variants |-> <<variant>>, where_clauses |-> where_clauses],
                                     num_params),
            flags |-> flags])

struct_datum_query(d, krate, struct_id) ==
    LET type_ctor == TypeCtor_from_chalk(struct_id)
        num_params == num_ty_params(d, type_ctor)
        upstream == type_ctor_krate(type_ctor) # Some(krate)
        generic_def == as_generic_def(type_ctor)
        where_clauses ==
            IF generic_def = None THEN <<>>
            ELSE convert_where_clauses(d, generic_def.value,
                                       bound_vars(generics(d, generic_def.value), INNERMOST))
        flags == [upstream |-> upstream, fundamental |-> FALSE, phantom_data |-> FALSE]
        variant == [fields |-> <<>>]
    IN  Ok([kind |-> "Struct",
            id |-> struct_id,
            binders |-> make_binders([variants |-> <<variant>>, where_clauses |-> where_clauses],
                                     num_params),
            flags |-> flags])

\* impl_def_datum listing every type alias of the impl, named in the trait or
\* not.
impl_def_datum_listing_all_aliases(d, krate, chalk_id, impl_id) ==
    IF d.impl_trait[impl_id] = None THEN Panic("invalid impl passed to Chalk")
    ELSE
    LET trait_ == d.impl_trait[impl_id].value
        bound_vars_ == bound_vars(generics(d, GenericDef("ImplId", impl_id)), INNERMOST)
        items == impl_items(impl_id)
        type_aliases == SelectSeqBy(items, {it \in Range(items) : it.kind = "TypeAliasId"})
    IN  Ok([binders |->
                make_binders([trait_ref |-> TraitRef_to_chalk(trait_, d.impl_self_ty[impl_id]),
                              where_clauses |->
                                  convert_where_clauses(d, GenericDef("ImplId", impl_id),
                                                        bound_vars_)],
                             Len(bound_vars_)),
            impl_type |-> IF impl_krate(impl_id) = krate THEN "Local" ELSE "External",
            polarity |-> IF impl_is_negative(impl_id) THEN "Negative" ELSE "Positive",
            associated_ty_value_ids |->
                [k \in 1 .. Len(type_aliases) |->
                    AssocTyValue_to_chalk(AssocTyValue_TypeAlias(type_aliases[k].id))]])

impl_def_datum(d, krate, chalk_id, impl_id) ==
    IF d.impl_trait[impl_id] = None THEN Panic("invalid impl passed to Chalk")
    ELSE
    LET trait_ == d.impl_trait[impl_id].value
        generic_params == generics(d, GenericDef("ImplId", impl_id))
        bound_vars_ == bound_vars(generic_params, INNERMOST)
        impl_type == IF impl_krate(impl_id) = krate THEN "Local" ELSE "External"
        where_clauses == convert_where_clauses(d, GenericDef("ImplId", impl_id), bound_vars_)
        negative == impl_is_negative(impl_id)
        trait_ref == TraitRef_to_chalk(trait_, d.impl_self_ty[impl_id])
        polarity == IF negative THEN "Negative" ELSE "Positive"
        items == impl_items(impl_id)
        type_aliases == SelectSeqBy(items, {it \in Range(items) : it.kind = "TypeAliasId"})
        in_trait == SelectSeqBy(type_aliases,
                       {it \in Range(type_aliases) :
                           associated_type_by_name(trait_, type_alias_name(it.id)) # None})
        associated_ty_value_ids ==
            [k \in 1 .. Len(in_trait) |-> AssocTyValue_to_chalk(AssocTyValue_TypeAlias(in_trait[k].id))]
    IN  Ok([binders |-> make_binders([trait_ref |-> trait_ref, where_clauses |-> where_clauses],
                                     Len(bound_vars_)),
            impl_type |-> impl_type,
            polarity |-> polarity,
            associated_ty_value_ids |-> associated_ty_value_ids])

\* builtin::impl_datum(..).to_chalk: the datum of a synthesized impl.
builtin_impl_datum(d, krate, impl) ==
    Ok([binders |-> make_binders([trait_ref |-> TraitRef_to_chalk(impl.trait, TyApply("Closure")),
                                  where_clauses |-> <<>>], 0),
        impl_type |-> "External",
        polarity |-> "Positive",
        associated_ty_value_ids |-> <<AssocTyValue_to_chalk(AssocTyValue_ClosureFnTraitImplOutput)>>])

impl_datum_query(d, krate, impl_id) ==
    LET impl_ == Impl_from_chalk(impl_id)
    IN  IF impl_.tag = "ImplDef" THEN impl_def_datum(d, krate, impl_id, impl_.id)
        ELSE builtin_impl_datum(d, krate, impl_)

\* db.type_alias_data(type_alias).bounds: the associated type of FnOnce is
\* declared `type Output: Eq<P1, ..>` over the trait's own parameters, with
\* one more bound whose path does not resolve.
type_alias_bounds(d, type_alias) ==
    IF type_alias = "FnOnce::Output"
    THEN <<[trait |-> Some("Eq"), args |-> [k \in 1 .. d.params.trait |-> k]],
           [trait |-> None, args |-> <<>>]>>
    ELSE <<>>

\* GenericPredicate::from_type_bound in TypeParamLoweringMode::Variable: a
\* parameter of the definition becomes the variable of its index in the
\* innermost binder.
from_type_bound(bound, self_ty) ==
    IF bound.trait = None THEN PredicateError
    ELSE Implemented(bound.trait.value, self_ty,
                     [k \in DOMAIN bound.args |-> BoundVar(INNERMOST, bound.args[k])])

\* mapping::generic_predicate_to_inline_bound: a bound on self_ty itself,
\* without its self type.
generic_predicate_to_inline_bound(pred, self_ty) ==
    IF pred.tag = "Implemented" /\ pred.self = self_ty
    THEN Some([tag |-> "TraitBound", trait_id |-> Trait_to_chalk(pred.trait),
               args_no_self |-> pred.args])
    ELSE None

\* Shift::shifted_in on an inline bound.
inline_bound_shifted_in(bound) ==
    [bound EXCEPT !.args_no_self =
                     [k \in DOMAIN bound.args_no_self |-> shift_var(bound.args_no_self[k])]]

\* associated_ty_data_query wrapping each inline bound in its binder as it is.
associated_ty_data_query_without_shift(d, id) ==
    LET type_alias == TypeAlias_from_chalk(id)
        container == type_alias_container(type_alias)
    IN  IF container.tag # "TraitId" THEN Panic("associated type not in trait")
        ELSE
        LET generic_params == generics(d, GenericDef("TypeAliasId", type_alias))
            self_ty == BoundVar(INNERMOST, 0)
            declared == type_alias_bounds(d, type_alias)
            preds == [k \in 1 .. Len(declared) |-> from_type_bound(declared[k], self_ty)]
            inline == SelectSeqBy(preds,
                         {q \in Range(preds) : generic_predicate_to_inline_bound(q, self_ty) # None})
        IN  Ok([trait_id |-> Trait_to_chalk(container.trait),
                id |-> id,
                name |-> type_alias,
                binders |->
                    make_binders(
                        [bounds |-> [k \in 1 .. Len(inline) |->
                                        make_binders(generic_predicate_to_inline_bound(
                                                         inline[k], self_ty).value, 0)],
                         where_clauses |->
                             convert_where_clauses(d, GenericDef("TypeAliasId", type_alias),
                                                   bound_vars(generic_params, INNERMOST))],
                        Len(generic_params))])

associated_ty_data_query(d, id) ==
    LET type_alias == TypeAlias_from_chalk(id)
        container == type_alias_container(type_alias)
    IN  IF container.tag # "TraitId" THEN Panic("associated type not in trait")
        ELSE
        LET trait_ == container.trait
            generic_params == generics(d, GenericDef("TypeAliasId", type_alias))
            bound_vars_ == bound_vars(generic_params, INNERMOST)
            self_ty == BoundVar(INNERMOST, 0)
            declared == type_alias_bounds(d, type_alias)
            preds == [k \in 1 .. Len(declared) |-> from_type_bound(declared[k], self_ty)]
            inline == SelectSeqBy(preds,
                         {q \in Range(preds) : generic_predicate_to_inline_bound(q, self_ty) # None})
            bounds == [k \in 1 .. Len(inline) |->
                          make_binders(inline_bound_shifted_in(
                              generic_predicate_to_inline_bound(inline[k], self_ty).value), 0)]
            where_clauses == convert_where_clauses(d, GenericDef("TypeAliasId", type_alias),
                                                   bound_vars_)
        IN  Ok([trait_id |-> Trait_to_chalk(trait_),
                id |-> id,
                name |-> type_alias,
                binders |-> make_binders([bounds |-> bounds, where_clauses |-> where_clauses],
                                         Len(generic_params))])

\* db.ty(type_alias): the aliased type under the alias's generic parameters.
type_alias_ty(d, type_alias) ==
    make_binders(TyApply("Point"), Len(generics(d, GenericDef("TypeAliasId", type_alias))))

\* type_alias_associated_ty_value falling back to the associated type of the
\* same name of FnOnce when the trait of the impl did not resolve.
type_alias_associated_ty_value_guessing(d, krate, type_alias) ==
    LET container == type_alias_container(type_alias)
    IN  IF container.tag # "ImplId" THEN Panic("assoc ty value should be in impl")
        ELSE
        LET impl_id == container.impl
            trait_ == IF d.impl_trait[impl_id] = None THEN "FnOnce"
                      ELSE d.impl_trait[impl_id].value
            assoc_ty == associated_type_by_name(trait_, type_alias_name(type_alias))
            ty == type_alias_ty(d, type_alias)
        IN  IF assoc_ty = None THEN Panic("assoc ty value should not exist")
            ELSE Ok([impl_id |-> Impl_to_chalk(ImplDef(impl_id)),
                     associated_ty_id |-> TypeAlias_to_chalk(assoc_ty.value),
                     value |-> make_binders([ty |-> Ty_to_chalk(ty.value)], ty.num_binders)])

\* type_alias_associated_ty_value naming the alias of the impl itself as the
\* associated type its value is for.
type_alias_associated_ty_value_naming_alias(d, krate, type_alias) ==
    LET container == type_alias_container(type_alias)
    IN  IF container.tag # "ImplId" THEN Panic("assoc ty value should be in impl")
        ELSE IF d.impl_trait[container.impl] = None THEN Panic("assoc ty value should not exist")
        ELSE
        LET impl_id == container.impl
            trait_ == d.impl_trait[impl_id].value
            assoc_ty == associated_type_by_name(trait_, type_alias_name(type_alias))
            ty == type_alias_ty(d, type_alias)
        IN  IF assoc_ty = None THEN Panic("assoc ty value should not exist")
            ELSE Ok([impl_id |-> Impl_to_chalk(ImplDef(impl_id)),
                     associated_ty_id |-> TypeAlias_to_chalk(type_alias),
                     value |-> make_binders([ty |-> Ty_to_chalk(ty.value)], ty.num_binders)])

type_alias_associated_ty_value(d, krate, type_alias) ==
    LET container == type_alias_container(type_alias)
    IN  IF container.tag # "ImplId" THEN Panic("assoc ty value should be in impl")
        ELSE IF d.impl_trait[container.impl] = None THEN Panic("assoc ty value should not exist")
        ELSE
        LET impl_id == container.impl
            trait_ == d.impl_trait[impl_id].value
            assoc_ty == associated_type_by_name(trait_, type_alias_name(type_alias))
            ty == type_alias_ty(d, type_alias)
        IN  IF assoc_ty = None THEN Panic("assoc ty value should not exist")
            ELSE Ok([impl_id |-> Impl_to_chalk(ImplDef(impl_id)),
                     associated_ty_id |-> TypeAlias_to_chalk(assoc_ty.value),
                     value |-> make_binders([ty |-> Ty_to_chalk(ty.value)], ty.num_binders)])

\* builtin::associated_ty_value(..).to_chalk: the Output of a closure's
\* built-in Fn impl.
builtin_associated_ty_value(d, krate, data) ==
    Ok([impl_id |-> Impl_to_chalk(ClosureFnTraitImpl("FnOnce")),
        associated_ty_id |-> TypeAlias_to_chalk("FnOnce::Output"),
        value |-> make_binders([ty |-> Ty_to_chalk(TyUnknown)], 0)])

associated_ty_value_query(d, krate, id) ==
    LET data == AssocTyValue_from_chalk(id)
    IN  IF data.tag = "TypeAlias" THEN type_alias_associated_ty_value(d, krate, data.id)
        ELSE builtin_associated_ty_value(d, krate, data)

\* db.callable_item_signature(def): `fn make() -> Point` and `fn id(x: P1) ->
\* P1` (Point when it declares no parameter), under the function's generics.
callable_item_signature(d, callable_def) ==
    LET n == Len(generics(d, GenericDef("FunctionId", callable_def)))
        t == IF n = 0 THEN TyApply("Point") ELSE TyBound(INNERMOST, 0)
    IN  IF callable_def = "id"
        THEN make_binders([params |-> <<t>>, ret |-> t], n)
        ELSE make_binders([params |-> <<>>, ret |-> TyApply("Point")], n)

\* fn_def_datum_query binding one variable per argument of the signature
\* instead of one per generic parameter.
fn_def_datum_query_binding_arguments(d, krate, fn_def_id) ==
    LET callable_def == CallableDef_from_chalk(fn_def_id)
        generic_params == generics(d, GenericDef("FunctionId", callable_def))
        sig == callable_item_signature(d, callable_def)
        bound_vars_ == bound_vars(generic_params, INNERMOST)
        where_clauses == convert_where_clauses(d, GenericDef("FunctionId", callable_def),
                                               bound_vars_)
        bound == [inputs_and_output |->
                     make_binders(
                         [argument_types |->
                              [k \in DOMAIN sig.value.params |->
                                  Ty_to_chalk(Ty_shifted_in(sig.value.params[k]))],
                          return_type |-> Ty_to_chalk(Ty_shifted_in(sig.value.ret))],
                         0),
                  where_clauses |-> where_clauses]
    IN  Ok([id |-> fn_def_id, binders |-> make_binders(bound, Len(sig.value.params))])

fn_def_datum_query(d, krate, fn_def_id) ==
    LET callable_def == CallableDef_from_chalk(fn_def_id)
        generic_params == generics(d, GenericDef("FunctionId", callable_def))
        sig == callable_item_signature(d, callable_def)
        bound_vars_ == bound_vars(generic_params, INNERMOST)
        where_clauses == convert_where_clauses(d, GenericDef("FunctionId", callable_def),
                                               bound_vars_)
        bound == [inputs_and_output |->
                     make_binders(
                         [argument_types |->
                              [k \in DOMAIN sig.value.params |->
                                  Ty_to_chalk(Ty_shifted_in(sig.value.params[k]))],
                          return_type |-> Ty_to_chalk(Ty_shifted_in(sig.value.ret))],
                         0),
                  where_clauses |-> where_clauses]
    IN  Ok([id |-> fn_def_id, binders |-> make_binders(bound, sig.num_binders)])

-----------------------------------------------------------------------------
(* The remaining RustIrDatabase operations of ChalkContext *)

\* The chalk handle of the opaque type interned for (func, idx), and
\* db.lookup_intern_impl_trait_id back.
OpaqueTy_to_chalk(func, idx) == [OpaqueTyId |-> [func |-> func, idx |-> idx]]

lookup_intern_impl_trait_id(id) == id.OpaqueTyId

\* opaque_ty_data keeping the error placeholders among the bounds.
opaque_ty_data_keeping_errors(d, krate, id) ==
    LET full_id == lookup_intern_impl_trait_id(id)
        func == full_id.func
        idx == full_id.idx
    IN  IF d.return_type_impl_traits[func] = None
        THEN Panic("impl trait id without impl traits")
        ELSE
        LET datas == d.return_type_impl_traits[func].value
        IN  IF idx >= Len(datas.impl_traits) THEN Panic("index out of bounds")
            ELSE
            LET data == datas.impl_traits[idx + 1]
                kept == data.bounds
                bound == [bounds |->
                             make_binders([k \in 1 .. Len(kept) |-> GenericPredicate_to_chalk(kept[k])],
                                          1)]
                num_vars == datas.num_binders
            IN  Ok([opaque_ty_id |-> id, bound |-> make_binders(bound, num_vars)])

opaque_ty_data(d, krate, id) ==
    LET full_id == lookup_intern_impl_trait_id(id)
        func == full_id.func
        idx == full_id.idx
    IN  IF d.return_type_impl_traits[func] = None
        THEN Panic("impl trait id without impl traits")
        ELSE
        LET datas == d.return_type_impl_traits[func].value
        IN  IF idx >= Len(datas.impl_traits) THEN Panic("index out of bounds")
            ELSE
            LET data == datas.impl_traits[idx + 1]
                kept == SelectSeqBy(data.bounds, {b \in Range(data.bounds) : ~is_error(b)})
                bound == [bounds |->
                             make_binders([k \in 1 .. Len(kept) |-> GenericPredicate_to_chalk(kept[k])],
                                          1)]
                num_vars == datas.num_binders
            IN  Ok([opaque_ty_id |-> id, bound |-> make_binders(bound, num_vars)])

\* well_known_trait_id taking whatever the lang item names for a trait.
well_known_trait_id_of_any_target(d, krate, well_known_trait) ==
    LET lang_attr == lang_attr_from_well_known_trait(well_known_trait)
        target == d.lang_item[krate][lang_attr]
    IN  IF target # None
        THEN Some(Trait_to_chalk(target.value.id))
        ELSE None

well_known_trait_id(d, krate, well_known_trait) ==
    LET lang_attr == lang_attr_from_well_known_trait(well_known_trait)
        target == d.lang_item[krate][lang_attr]
    IN  IF target # None /\ target.value.kind = "TraitId"
        THEN Some(Trait_to_chalk(target.value.id))
        ELSE None

hidden_opaque_type(d, krate, id) == Ty_to_chalk(TyUnknown)

custom_clauses(d, krate) == <<>>

is_object_safe(d, krate, trait_id) == TRUE

-----------------------------------------------------------------------------
(* The conversions between the interned keys and the solver's handles *)

\* A salsa intern key: a newtype of the interned integer.
InternKey_from_intern_id(key, v) == [key |-> key, intern_id |-> v]

as_intern_id(k) == k.intern_id

\* impl From<AdtId> for TypeCtorId, and back: AdtId wraps the key itself.
TypeCtorId_from_AdtId(struct_id) == struct_id.v0

AdtId_from_TypeCtorId(type_ctor_id) == [chalk |-> "AdtId", v0 |-> type_ctor_id]

\* impl From<FnDefId> for CallableDefId, and back.
CallableDefId_from_FnDefId(fn_def_id) == InternKey_from_intern_id("CallableDefId", fn_def_id.v0)

FnDefId_from_CallableDefId(callable_def_id) ==
    [chalk |-> "FnDefId", v0 |-> as_intern_id(callable_def_id)]

\* GlobalImplId_from_ImplId taking the handle's integer for one-based.
GlobalImplId_from_ImplId_one_based(impl_id) ==
    InternKey_from_intern_id("GlobalImplId", impl_id.v0 + 1)

\* impl From<ImplId> for GlobalImplId, and back.
GlobalImplId_from_ImplId(impl_id) == InternKey_from_intern_id("GlobalImplId", impl_id.v0)

ImplId_from_GlobalImplId(impl_id) == [chalk |-> "ImplId", v0 |-> as_intern_id(impl_id)]

\* impl From<OpaqueTyId> for InternedOpaqueTyId, and back.
InternedOpaqueTyId_from_OpaqueTyId(id) == InternKey_from_intern_id("InternedOpaqueTyId", id.v0)

OpaqueTyId_from_InternedOpaqueTyId(id) == [chalk |-> "OpaqueTyId", v0 |-> as_intern_id(id)]

\* impl From<AssociatedTyValueId> for AssocTyValueId, and back.
AssocTyValueId_from_AssociatedTyValueId(id) == InternKey_from_intern_id("AssocTyValueId", id.v0)

AssociatedTyValueId_from_AssocTyValueId(assoc_ty_value_id) ==
    [chalk |-> "AssociatedTyValueId", v0 |-> as_intern_id(assoc_ty_value_id)]

IdKinds == {"Adt", "FnDef", "Impl", "OpaqueTy", "AssocTyValue"}

\* The name of the internal key type of each kind.
KeyName(kind) ==
    CASE kind = "Adt" -> "TypeCtorId"
      [] kind = "FnDef" -> "CallableDefId"
      [] kind = "Impl" -> "GlobalImplId"
      [] kind = "OpaqueTy" -> "InternedOpaqueTyId"
      [] kind = "AssocTyValue" -> "AssocTyValueId"

\* Into::into from the internal key to the solver handle of a kind.
to_handle(kind, key) ==
    CASE kind = "Adt" -> AdtId_from_TypeCtorId(key)
      [] kind = "FnDef" -> FnDefId_from_CallableDefId(key)
      [] kind = "Impl" -> ImplId_from_GlobalImplId(key)
      [] kind = "OpaqueTy" -> OpaqueTyId_from_InternedOpaqueTyId(key)
      [] kind = "AssocTyValue" -> AssociatedTyValueId_from_AssocTyValueId(key)

\* Into::into from the solver handle to the internal key of a kind.
from_handle(kind, handle) ==
    CASE kind = "Adt" -> TypeCtorId_from_AdtId(handle)
      [] kind = "FnDef" -> CallableDefId_from_FnDefId(handle)
      [] kind = "Impl" -> GlobalImplId_from_ImplId(handle)
      [] kind = "OpaqueTy" -> InternedOpaqueTyId_from_OpaqueTyId(handle)
      [] kind = "AssocTyValue" -> AssocTyValueId_from_AssociatedTyValueId(handle)

-----------------------------------------------------------------------------
(* The calls *)

NoCall == [op |-> "none", args |-> <<>>, ret |-> None]

\* Every impl handle there is: the ordinary impls and the built-in one.
AllImplHandles ==
    {Impl_to_chalk(ImplDef(i)) : i \in ImplIds} \cup {Impl_to_chalk(ClosureFnTraitImpl("FnOnce"))}

AllAssocTyValueIds ==
    {AssocTyValue_to_chalk(AssocTyValue_TypeAlias(ta)) : ta \in TypeAliasIds}
    \cup {AssocTyValue_to_chalk(AssocTyValue_ClosureFnTraitImplOutput)}

\* The opaque types of the return-position impl traits that were interned.
AllOpaqueTyIds == {OpaqueTy_to_chalk(f, idx) : f \in CallableDefs, idx \in 0 .. 2}

\* The solver asks the context for the impls of a trait.
ImplsForTrait ==
    \E trait_ \in Traits, goal \in SolverGoals :
        LET trait_id == Trait_to_chalk(trait_)
            result == impls_for_trait(db, self_krate, trait_id, goal.parameters, goal.binders)
        IN  /\ call' = [op |-> "impls_for_trait",
                        args |-> [trait_id |-> trait_id, parameters |-> goal.parameters,
                                  binders |-> goal.binders],
                        ret |-> Ok(result)]
            /\ known' = known \cup result
            /\ UNCHANGED <<db, self_krate>>

\* RustIrDatabase::impl_datum
ImplDatumCall(impl_id) ==
    /\ call' = [op |-> "impl_datum", args |-> [impl_id |-> impl_id],
                ret |-> impl_datum_query(db, self_krate, impl_id)]
    /\ UNCHANGED <<db, self_krate, known>>

\* The solver asks for the datum of an impl it obtained from impls_for_trait.
ImplDatum == \E impl_id \in known : ImplDatumCall(impl_id)

\* The impl_datum query asked for any interned impl.
ImplDatumQuery == \E impl_id \in AllImplHandles : ImplDatumCall(impl_id)

\* RustIrDatabase::trait_datum
TraitDatum ==
    \E trait_ \in Traits :
        /\ call' = [op |-> "trait_datum", args |-> [trait_id |-> Trait_to_chalk(trait_)],
                    ret |-> trait_datum_query(db, self_krate, Trait_to_chalk(trait_))]
        /\ UNCHANGED <<db, self_krate, known>>

\* RustIrDatabase::adt_datum
AdtDatum ==
    \E ctor \in StructCtors :
        /\ call' = [op |-> "adt_datum", args |-> [struct_id |-> TypeCtor_to_chalk(ctor)],
                    ret |-> struct_datum_query(db, self_krate, TypeCtor_to_chalk(ctor))]
        /\ UNCHANGED <<db, self_krate, known>>

\* RustIrDatabase::associated_ty_data
AssociatedTyData ==
    \E ta \in TypeAliasIds :
        /\ call' = [op |-> "associated_ty_data", args |-> [id |-> TypeAlias_to_chalk(ta)],
                    ret |-> associated_ty_data_query(db, TypeAlias_to_chalk(ta))]
        /\ UNCHANGED <<db, self_krate, known>>

\* RustIrDatabase::associated_ty_value
AssociatedTyValue ==
    \E id \in AllAssocTyValueIds :
        /\ call' = [op |-> "associated_ty_value", args |-> [id |-> id],
                    ret |-> associated_ty_value_query(db, self_krate, id)]
        /\ UNCHANGED <<db, self_krate, known>>

\* RustIrDatabase::fn_def_datum
FnDefDatum ==
    \E f \in CallableDefs :
        /\ call' = [op |-> "fn_def_datum", args |-> [fn_def_id |-> CallableDef_to_chalk(f)],
                    ret |-> fn_def_datum_query(db, self_krate, CallableDef_to_chalk(f))]
        /\ UNCHANGED <<db, self_krate, known>>

\* RustIrDatabase::opaque_ty_data
OpaqueTyData ==
    \E id \in AllOpaqueTyIds :
        /\ call' = [op |-> "opaque_ty_data", args |-> [id |-> id],
                    ret |-> opaque_ty_data(db, self_krate, id)]
        /\ UNCHANGED <<db, self_krate, known>>

\* RustIrDatabase::hidden_opaque_type
HiddenOpaqueType ==
    \E id \in AllOpaqueTyIds :
        /\ call' = [op |-> "hidden_opaque_type", args |-> [id |-> id],
                    ret |-> Ok(hidden_opaque_type(db, self_krate, id))]
        /\ UNCHANGED <<db, self_krate, known>>

\* RustIrDatabase::well_known_trait_id
WellKnownTraitId ==
    \E tag \in WellKnownTraits :
        /\ call' = [op |-> "well_known_trait_id", args |-> [well_known_trait |-> tag],
                    ret |-> Ok(well_known_trait_id(db, self_krate, tag))]
        /\ UNCHANGED <<db, self_krate, known>>

\* RustIrDatabase::custom_clauses
CustomClauses ==
    /\ call' = [op |-> "custom_clauses", args |-> <<>>, ret |-> Ok(custom_clauses(db, self_krate))]
    /\ UNCHANGED <<db, self_krate, known>>

\* RustIrDatabase::is_object_safe
IsObjectSafe ==
    \E trait_ \in Traits :
        /\ call' = [op |-> "is_object_safe", args |-> [trait_id |-> Trait_to_chalk(trait_)],
                    ret |-> Ok(is_object_safe(db, self_krate, Trait_to_chalk(trait_)))]
        /\ UNCHANGED <<db, self_krate, known>>

\* The two well-known trait tables applied to a name and to a tag.
WellKnownTraitFromLangAttr ==
    \E name \in LangAttrs :
        /\ call' = [op |-> "well_known_trait_from_lang_attr", args |-> [name |-> name],
                    ret |-> Ok(well_known_trait_from_lang_attr(name))]
        /\ UNCHANGED <<db, self_krate, known>>

LangAttrFromWellKnownTrait ==
    \E tag \in WellKnownTraits :
        /\ call' = [op |-> "lang_attr_from_well_known_trait", args |-> [attr |-> tag],
                    ret |-> Ok(lang_attr_from_well_known_trait(tag))]
        /\ UNCHANGED <<db, self_krate, known>>

\* A key of some kind converted into its solver handle.
IntoHandle ==
    \E kind \in IdKinds, v \in 0 .. MaxInternId :
        LET key == InternKey_from_intern_id(KeyName(kind), v)
        IN  /\ call' = [op |-> "into_handle", args |-> [kind |-> kind, key |-> key],
                        ret |-> Ok(to_handle(kind, key))]
            /\ UNCHANGED <<db, self_krate, known>>

\* A solver handle converted into its key.
FromHandle ==
    \E kind \in IdKinds, v \in 0 .. MaxInternId :
        LET handle == to_handle(kind, InternKey_from_intern_id(KeyName(kind), v))
        IN  /\ call' = [op |-> "from_handle", args |-> [kind |-> kind, handle |-> handle],
                        ret |-> Ok(from_handle(kind, handle))]
            /\ UNCHANGED <<db, self_krate, known>>

-----------------------------------------------------------------------------
(* The specifications *)

\* The solver's session with one context: impls are looked up, and the datum
\* of an impl is asked for only with a handle that a lookup returned.
Init ==
    /\ db \in ImplDbs
    /\ self_krate \in Crates
    /\ known = {}
    /\ call = NoCall

Next == ImplsForTrait \/ ImplDatum

Spec == Init /\ [][Next]_vars

\* The datum queries asked, in any order, for any definition.
InitDatum ==
    /\ db \in DatumDbs
    /\ self_krate \in Crates
    /\ known = {}
    /\ call = NoCall

NextDatum ==
    \/ TraitDatum
    \/ AdtDatum
    \/ ImplDatumQuery
    \/ AssociatedTyData
    \/ AssociatedTyValue
    \/ FnDefDatum

SpecDatum == InitDatum /\ [][NextDatum]_vars

\* The opaque-type operations over the impl-trait records.
InitOpaque ==
    /\ db \in OpaqueDbs
    /\ self_krate \in Crates
    /\ known = {}
    /\ call = NoCall

NextOpaque == OpaqueTyData \/ HiddenOpaqueType

SpecOpaque == InitOpaque /\ [][NextOpaque]_vars

\* The well-known trait bridge and the operations with a fixed answer.
InitWellKnown ==
    /\ db \in WellKnownDbs
    /\ self_krate \in Crates
    /\ known = {}
    /\ call = NoCall

NextWellKnown ==
    \/ WellKnownTraitId
    \/ WellKnownTraitFromLangAttr
    \/ LangAttrFromWellKnownTrait
    \/ TraitDatum
    \/ HiddenOpaqueType
    \/ CustomClauses
    \/ IsObjectSafe

SpecWellKnown == InitWellKnown /\ [][NextWellKnown]_vars

\* The conversions between keys and handles.
InitIds ==
    /\ db = DefaultDb
    /\ self_krate \in Crates
    /\ known = {}
    /\ call = NoCall

NextIds == IntoHandle \/ FromHandle

SpecIds == InitIds /\ [][NextIds]_vars

-----------------------------------------------------------------------------
(* Impl lookup: C1, C2, C8 *)

IsImplsForTrait == call.op = "impls_for_trait"

\* The trait and the self type of the last impls_for_trait call, and the
\* fingerprints its lookup was restricted to.
CallTrait == Trait_from_chalk(call.args.trait_id)

CallSelfTy == call.args.parameters[1]

CallFps == pruning_fps(CallSelfTy, call.args.binders)

\* The built-in impls of the last impls_for_trait call.
CallBuiltins ==
    {Impl_to_chalk(i) :
        i \in get_builtin_impls(db, self_krate, CallSelfTy,
                                IF Len(call.args.parameters) >= 2
                                THEN Some(call.args.parameters[2]) ELSE None,
                                CallTrait)}

\* What the unrestricted scan returns for the trait of the last call:
\* for_trait over the indices of the dependencies and of the crate, and the
\* built-in impls.
UnrestrictedScan ==
    {Impl_to_chalk(ImplDef(i)) :
        i \in for_trait(db, trait_impls_in_deps(db, self_krate), CallTrait)
              \cup for_trait(db, trait_impls_in_crate(db, self_krate), CallTrait)}
    \cup CallBuiltins

\* The crate graph has at least one local and one dependency impl.
HasLocalAndDependencyImpl ==
    /\ trait_impls_in_crate(db, self_krate) # {}
    /\ trait_impls_in_deps(db, self_krate) # {}

\* Whether the self type of an ordinary impl has a fingerprint of the set.
ImplFingerprintIn(handle, fps) ==
    LET fp == TyFingerprint_for_impl(db.impl_self_ty[Impl_from_chalk(handle).id])
    IN  fp # None /\ fp.value \in fps

Unresolved(handle) ==
    Impl_from_chalk(handle).tag = "ImplDef" /\ db.impl_trait[Impl_from_chalk(handle).id] = None

\* C2: no impl whose trait reference does not resolve is ever returned by
\* impls_for_trait, on the pruned or on the unrestricted path, so the solver
\* never holds one, and impl_datum, asked only with handles the solver holds,
\* is never asked for one and never panics.
C2_UnresolvedNeverReachesChalk ==
    /\ IsImplsForTrait => \A h \in call.ret.value : ~Unresolved(h)
    /\ \A h \in known : ~Unresolved(h)
    /\ call.op = "impl_datum" => ~Unresolved(call.args.impl_id) /\ call.ret.tag = "Ok"

\* The datum of an impl was asked for by a context that sees an impl whose
\* trait reference does not resolve and from which the solver holds two impls.
C2_Witness ==
    /\ call.op = "impl_datum"
    /\ \E i \in ImplIds : /\ db.impl_trait[i] = None
                          /\ impl_krate(i) \in {self_krate} \cup transitive_deps(self_krate)
    /\ Cardinality(known) >= 2

\* The ordinary impls of the trait that the context sees: those of its crate
\* and of the crates it depends on, whose trait reference is the trait.
VisibleImplsOf(trait_) ==
    {i \in ImplIds : /\ impl_krate(i) \in {self_krate} \cup transitive_deps(self_krate)
                     /\ db.impl_trait[i] = Some(trait_)}

\* The fixture of the scenario: seen from app, Eq has the local impl for Point
\* and the impl for Vec3 of a dependency, and no other.
EqScenario ==
    /\ self_krate = "app"
    /\ db.impl_trait[1] = Some("Eq") /\ db.impl_self_ty[1] = TyApply("Point")
    /\ db.impl_trait[2] = Some("Eq") /\ db.impl_self_ty[2] = TyApply("Vec3")
    /\ VisibleImplsOf("Eq") = {1, 2}

\* C8: with an empty pruning set impls_for_trait returns every impl of the
\* trait of the crate and of all its dependencies, with a non-empty one those
\* of them whose self type has a fingerprint of the set (and in both cases the
\* built-in impls); in the scenario, asking for Eq with self type Point
\* returns exactly the impl for Point, and with a general type variable both.
C8_LookupResult ==
    IsImplsForTrait =>
        /\ call.ret.value =
              {Impl_to_chalk(ImplDef(i)) :
                  i \in {j \in VisibleImplsOf(CallTrait) :
                            \/ CallFps = {}
                            \/ \E fp \in CallFps :
                                  db.impl_self_ty[j] = TyApply(fp)}}
              \cup CallBuiltins
        /\ (EqScenario /\ CallTrait = "Eq" /\ CallSelfTy = TyApply("Point"))
              => call.ret.value = {Impl_to_chalk(ImplDef(1))}
        /\ (EqScenario /\ CallTrait = "Eq" /\ CallSelfTy = TyBound(INNERMOST, 0)
                /\ call.args.binders = <<"TyGeneral">>)
              => call.ret.value = {Impl_to_chalk(ImplDef(1)), Impl_to_chalk(ImplDef(2))}

\* In the scenario, the lookup for an unsubstituted generic self type has
\* returned both impls.
C8_Witness ==
    /\ IsImplsForTrait /\ EqScenario /\ CallTrait = "Eq"
    /\ CallSelfTy = TyBound(INNERMOST, 0) /\ CallFps = {}
    /\ call.ret.value = {Impl_to_chalk(ImplDef(1)), Impl_to_chalk(ImplDef(2))}

-----------------------------------------------------------------------------
(* Id conversions: C3 *)

KeysOf(kind) == {InternKey_from_intern_id(KeyName(kind), v) : v \in 0 .. MaxInternId}

\* C3: for each id kind, a key converted into its handle and back is the key
\* again, a handle converted into its key and back is the handle again, and
\* two different keys have different handles.
C3_RoundTrip ==
    /\ call.op = "into_handle" =>
          /\ from_handle(call.args.kind, call.ret.value) = call.args.key
          /\ \A other \in KeysOf(call.args.kind) :
                 other # call.args.key => to_handle(call.args.kind, other) # call.ret.value
    /\ call.op = "from_handle" =>
          to_handle(call.args.kind, call.ret.value) = call.args.handle

\* The handle of an impl was converted into the key of the same integer.
C3_Witness ==
    /\ call.op = "from_handle" /\ call.args.kind = "Impl"
    /\ call.args.handle.v0 = MaxInternId
    /\ call.ret.value = InternKey_from_intern_id("GlobalImplId", MaxInternId)

-----------------------------------------------------------------------------
(* Datum construction: C4, C5, C7 *)

\* The last call asked for the datum of an ordinary impl.
IsImplDefDatum ==
    call.op = "impl_datum" /\ Impl_from_chalk(call.args.impl_id).tag = "ImplDef"

CallImpl == Impl_from_chalk(call.args.impl_id).id

\* The last call asked for the datum of an ADT.
IsAdtDatum ==
    call.op = "adt_datum" /\ TypeCtor_from_chalk(call.args.struct_id) \in AdtCtors

\* C4: an impl is Local, and an ADT or a trait not upstream, exactly when the
\* crate that declares it is the crate that asks.
C4_LocalIffOwnCrate ==
    /\ (IsImplDefDatum /\ call.ret.tag = "Ok") =>
          (call.ret.value.impl_type =
              IF impl_krate(CallImpl) = self_krate THEN "Local" ELSE "External")
    /\ IsAdtDatum =>
          (call.ret.value.flags.upstream =
              (adt_krate(TypeCtor_from_chalk(call.args.struct_id)) # self_krate))
    /\ call.op = "trait_datum" =>
          (call.ret.value.flags.upstream =
              (trait_krate(Trait_from_chalk(call.args.trait_id)) # self_krate))

\* An ADT of a dependency was found upstream.
C4_Witness ==
    /\ IsAdtDatum
    /\ adt_krate(TypeCtor_from_chalk(call.args.struct_id)) \in transitive_deps(self_krate)
    /\ call.ret.value.flags.upstream

\* C5: the outer binder of a datum binds as many variables as its definition
\* has generic parameters: those a trait declares and one for Self, those of
\* an ADT, an impl or a function, and for an associated type those of its
\* trait and one for Self.
C5_BinderCount ==
    /\ call.op = "trait_datum" => call.ret.value.binders.num_binders = db.params.trait + 1
    /\ IsAdtDatum => call.ret.value.binders.num_binders = db.params.adt
    /\ (IsImplDefDatum /\ call.ret.tag = "Ok") =>
          call.ret.value.binders.num_binders = db.params.impl
    /\ (call.op = "associated_ty_data" /\ call.ret.tag = "Ok") =>
          call.ret.value.binders.num_binders = db.params.trait + 1
    /\ call.op = "fn_def_datum" => call.ret.value.binders.num_binders = db.params.function

\* The datum of a function of one argument that declares no generic
\* parameter was built.
C5_Witness ==
    /\ call.op = "fn_def_datum" /\ db.params.function = 0
    /\ Len(call.ret.value.binders.value.inputs_and_output.value.argument_types) = 1
    /\ call.ret.value.binders.num_binders = 0

\* The last call asked for the value of a type alias that is an item of an
\* impl.
IsImplTypeAliasValue ==
    /\ call.op = "associated_ty_value"
    /\ AssocTyValue_from_chalk(call.args.id).tag = "TypeAlias"
    /\ type_alias_container(AssocTyValue_from_chalk(call.args.id).id).tag = "ImplId"

CallValueImpl == type_alias_container(AssocTyValue_from_chalk(call.args.id).id).impl

\* C7: impl_datum for an ordinary impl, and associated_ty_value for a type
\* alias of an impl, panic when the trait reference of the impl did not
\* resolve: the query is aborted and returns no datum.
C7_UnresolvedPanics ==
    /\ (IsImplDefDatum /\ db.impl_trait[CallImpl] = None) =>
          call.ret = Panic("invalid impl passed to Chalk")
    /\ (IsImplTypeAliasValue /\ db.impl_trait[CallValueImpl] = None) =>
          call.ret = Panic("assoc ty value should not exist")

\* The value of a type alias named like an associated type of FnOnce was
\* asked for while the trait of its impl did not resolve.
C7_Witness ==
    /\ IsImplTypeAliasValue /\ db.impl_trait[CallValueImpl] = None
    /\ type_alias_name(AssocTyValue_from_chalk(call.args.id).id) = "Output"
    /\ call.ret.tag = "Panic"

-----------------------------------------------------------------------------
(* The well-known trait bridge and the fixed answers: C6, C10 *)

WellKnownLangAttrs == {"sized", "copy", "clone", "drop", "fn_once", "fn_mut", "fn", "unsize"}

\* C6: the attribute name of every well-known trait maps back to that trait,
\* a name of the eight maps to a trait whose attribute name it is, and every
\* other name maps to none.
C6_TablesInverse ==
    /\ call.op = "lang_attr_from_well_known_trait" =>
          /\ call.ret.value \in WellKnownLangAttrs
          /\ well_known_trait_from_lang_attr(call.ret.value) = Some(call.args.attr)
    /\ call.op = "well_known_trait_from_lang_attr" =>
          IF call.args.name \in WellKnownLangAttrs
          THEN /\ call.ret.value # None
               /\ call.ret.value.value \in WellKnownTraits
               /\ lang_attr_from_well_known_trait(call.ret.value.value) = call.args.name
          ELSE call.ret.value = None

\* The attribute name of FnMut was looked up.
C6_Witness ==
    /\ call.op = "lang_attr_from_well_known_trait"
    /\ call.args.attr = "FnMut" /\ call.ret.value = "fn_mut"

\* The lang item of the context's crate for the attribute of a tag.
LangItemOf(tag) == db.lang_item[self_krate][lang_attr_from_well_known_trait(tag)]

\* C10: well_known_trait_id returns none when the crate has no lang item for
\* the attribute of the tag or the lang item is not a trait (and the trait's
\* handle otherwise), hidden_opaque_type the unknown type, custom_clauses the
\* empty list and is_object_safe true; none of them fails.
C10_ConservativeDefaults ==
    /\ call.op = "well_known_trait_id" =>
          /\ call.ret.tag = "Ok"
          /\ (LangItemOf(call.args.well_known_trait) = None) => call.ret.value = None
          /\ (LangItemOf(call.args.well_known_trait) # None) =>
                IF LangItemOf(call.args.well_known_trait).value.kind = "TraitId"
                THEN call.ret.value =
                        Some(Trait_to_chalk(LangItemOf(call.args.well_known_trait).value.id))
                ELSE call.ret.value = None
    /\ call.op = "hidden_opaque_type" => call.ret = Ok(Ty_to_chalk(TyUnknown))
    /\ call.op = "custom_clauses" => call.ret = Ok(<<>>)
    /\ call.op = "is_object_safe" => call.ret = Ok(TRUE)

\* The trait of a tag was asked for in a crate whose lang item of that name
\* is a struct.
C10_Witness ==
    /\ call.op = "well_known_trait_id"
    /\ LangItemOf(call.args.well_known_trait) = Some(LangStruct("Point"))
    /\ call.ret = Ok(None)

-----------------------------------------------------------------------------
(* Opaque types: C9 *)

\* The last call asked for the datum of an opaque type that has a record.
IsOpaqueTyDataOfRecord ==
    /\ call.op = "opaque_ty_data"
    /\ db.return_type_impl_traits[call.args.id.OpaqueTyId.func] # None
    /\ call.args.id.OpaqueTyId.idx <
          Len(db.return_type_impl_traits[call.args.id.OpaqueTyId.func].value.impl_traits)

CallRecords == db.return_type_impl_traits[call.args.id.OpaqueTyId.func].value

\* The bounds of the impl-trait record the last call is about.
CallRecordBounds == CallRecords.impl_traits[call.args.id.OpaqueTyId.idx + 1].bounds

\* The positions of the bounds of the record that are no error placeholder.
NonErrorPositions == {j \in DOMAIN CallRecordBounds : CallRecordBounds[j].tag # "Error"}

\* The position in the record of the k-th bound that is no error placeholder.
NthNonError(k) ==
    CHOOSE j \in NonErrorPositions : Cardinality({m \in NonErrorPositions : m <= j}) = k

\* C9: the datum of the opaque type (function, index) holds the bounds of the
\* record at that index that are no error placeholder, all of them, in their
\* order, under one binder for the opaque type itself, under an outer binder
\* of the record's num_binders variables.
C9_OpaqueBounds ==
    IsOpaqueTyDataOfRecord =>
        /\ call.ret.tag = "Ok"
        /\ call.ret.value.opaque_ty_id = call.args.id
        /\ call.ret.value.bound.num_binders = CallRecords.num_binders
        /\ call.ret.value.bound.value.bounds.num_binders = 1
        /\ LET out == call.ret.value.bound.value.bounds.value
           IN  /\ Len(out) = Cardinality(NonErrorPositions)
               /\ \A k \in 1 .. Len(out) :
                      out[k] = GenericPredicate_to_chalk(CallRecordBounds[NthNonError(k)])

\* The datum was built from a record whose first bound is an error
\* placeholder and whose second is a trait bound.
C9_Witness ==
    /\ IsOpaqueTyDataOfRecord
    /\ Len(CallRecordBounds) = 2
    /\ CallRecordBounds[1].tag = "Error" /\ CallRecordBounds[2].tag = "Implemented"
    /\ Len(call.ret.value.bound.value.bounds.value) = 1

-----------------------------------------------------------------------------
(* The pruning set: C11 *)

\* Whether the self type of the last impls_for_trait call is a variable of
\* the canonical binder (bound at the innermost level) declared with `kind`.
SelfTyIsVariableOfKind(kind) ==
    /\ CallSelfTy.tag = "Bound" /\ CallSelfTy.debruijn = INNERMOST
    /\ call.args.binders[CallSelfTy.index + 1] = kind

\* The pruning set as the specification words it.
ExpectedFps ==
    IF SelfTyIsVariableOfKind("TyInteger") THEN ALL_INT_FPS
    ELSE IF SelfTyIsVariableOfKind("TyFloat") THEN ALL_FLOAT_FPS
    ELSE IF CallSelfTy.tag = "Apply" THEN {CallSelfTy.ctor}
    ELSE {}

\* C11: the pruning set of impls_for_trait is the table of all integer
\* fingerprints for a self type that is a variable of integer kind, the table
\* of all float fingerprints for one of float kind, and otherwise the single
\* fingerprint of the self type's head, or the empty set when the self type
\* has no fingerprint (a variable of general kind included); the impls
\* returned are those of the lookup restricted to that set.
C11_PruningSet ==
    IsImplsForTrait =>
        /\ CallFps = ExpectedFps
        /\ call.ret.value =
               {Impl_to_chalk(ImplDef(id)) :
                   id \in collect_impl_defs(db, self_krate, CallTrait, ExpectedFps)}
               \cup CallBuiltins

\* A lookup for an integer variable that returned the impl for i32 and left
\* out an impl of the same trait for an ADT.
C11_Witness ==
    /\ IsImplsForTrait /\ SelfTyIsVariableOfKind("TyInteger")
    /\ CallFps = ALL_INT_FPS
    /\ \E h \in call.ret.value :
           /\ Impl_from_chalk(h).tag = "ImplDef"
           /\ db.impl_self_ty[Impl_from_chalk(h).id] = TyApply("i32")
    /\ \E i \in VisibleImplsOf(CallTrait) :
           /\ db.impl_self_ty[i].tag = "Apply" /\ db.impl_self_ty[i].ctor \in AdtCtors
           /\ Impl_to_chalk(ImplDef(i)) \notin call.ret.value

-----------------------------------------------------------------------------
(* The associated type values of an impl: C12 *)

\* The names of the associated types the trait declares.
AssociatedTypeNames(trait_) ==
    {type_alias_name(associated_types(trait_)[j]) : j \in DOMAIN associated_types(trait_)}

\* The positions, among the items of the impl of the last call, of the type
\* aliases named as an associated type of the implemented trait.
KeptItemPositions ==
    {k \in DOMAIN impl_items(CallImpl) :
        /\ impl_items(CallImpl)[k].kind = "TypeAliasId"
        /\ type_alias_name(impl_items(CallImpl)[k].id)
               \in AssociatedTypeNames(db.impl_trait[CallImpl].value)}

\* The n-th kept position, in item order.
NthKeptItem(n) ==
    CHOOSE k \in KeptItemPositions : Cardinality({m \in KeptItemPositions : m <= k}) = n

\* C12: the associated_ty_value_ids of the datum of an ordinary impl are the
\* impl's type-alias items whose name is that of an associated type of the
\* implemented trait, in item order; the other items are dropped and the
\* datum is built all the same.
C12_AssociatedTyValueIds ==
    (IsImplDefDatum /\ db.impl_trait[CallImpl] # None) =>
        /\ call.ret.tag = "Ok"
        /\ LET ids == call.ret.value.associated_ty_value_ids
           IN  /\ Len(ids) = Cardinality(KeptItemPositions)
               /\ \A n \in 1 .. Len(ids) :
                      ids[n] = AssocTyValue_to_chalk(
                                   AssocTyValue_TypeAlias(impl_items(CallImpl)[NthKeptItem(n)].id))

\* The datum of an impl of FnOnce whose items are a function, an alias the
\* trait does not name and an alias it names lists the last one alone.
C12_Witness ==
    /\ IsImplDefDatum /\ db.impl_trait[CallImpl] = Some("FnOnce") /\ CallImpl = 1
    /\ Len(impl_items(CallImpl)) = 3
    /\ call.ret.value.associated_ty_value_ids =
           <<AssocTyValue_to_chalk(AssocTyValue_TypeAlias("impl1::Output"))>>

-----------------------------------------------------------------------------
(* The bounds of an associated type: C13 *)

\* The last call asked for the datum of the associated type of FnOnce, which
\* is declared `type Output: Eq<P1, ..>` in `trait FnOnce<P1, ..>`.
IsAssocTyDataOfOutput ==
    call.op = "associated_ty_data" /\ TypeAlias_from_chalk(call.args.id) = "FnOnce::Output"

\* The predicates of the associated type that resolved, as lowered.
ResolvedPredicatesOfOutput ==
    LET preds == generic_predicates(db, GenericDef("TypeAliasId", "FnOnce::Output"))
    IN  SelectSeqBy(preds, {q \in Range(preds) : q.tag # "Error"})

-----------------------------------------------------------------------------
(* Impl datum, associated type values and trait datum together: C14 *)

\* The associated_ty_ids of the datum of the trait the impl of the last call
\* implements.
AssociatedTyIdsOfImplementedTrait ==
    Range(trait_datum_query(db, self_krate,
                            Trait_to_chalk(db.impl_trait[CallImpl].value)).value.associated_ty_ids)

\* C14: when the datum of an ordinary impl was built, associated_ty_value
\* answers for each id of its associated_ty_value_ids without a panic, with
\* a value whose impl_id is that impl and whose associated_ty_id is one of
\* the associated_ty_ids of the datum of the implemented trait.
C14_ValueIdsUsable ==
    (IsImplDefDatum /\ call.ret.tag = "Ok") =>
        \A id \in Range(call.ret.value.associated_ty_value_ids) :
            LET value == associated_ty_value_query(db, self_krate, id)
            IN  /\ value.tag = "Ok"
                /\ value.value.impl_id = call.args.impl_id
                /\ value.value.associated_ty_id \in AssociatedTyIdsOfImplementedTrait

\* The datum of an impl of FnOnce that lists two values, both for the
\* associated type Output of the trait.
C14_Witness ==
    /\ IsImplDefDatum /\ call.ret.tag = "Ok" /\ db.impl_trait[CallImpl] = Some("FnOnce")
    /\ Len(call.ret.value.associated_ty_value_ids) = 2
    /\ \A id \in Range(call.ret.value.associated_ty_value_ids) :
           associated_ty_value_query(db, self_krate, id).value.associated_ty_id =
               TypeAlias_to_chalk("FnOnce::Output")

-----------------------------------------------------------------------------
(* The two directions of the well-known trait bridge: C15 *)

\* The last call asked for the trait of a tag and was answered with a trait.
IsWellKnownTraitFound ==
    call.op = "well_known_trait_id" /\ call.ret.value # None

\* The trait the last well_known_trait_id call was answered with.
CallFoundTrait == Trait_from_chalk(call.ret.value.value)

\* The registry named, for the attribute of the tag asked for, a trait that
\* carries that lang attribute.
FoundTraitCarriesAttr ==
    db.lang_attr[CallFoundTrait] =
        Some(lang_attr_from_well_known_trait(call.args.well_known_trait))

\* C15: whenever well_known_trait_id answers for a tag with a trait, and the
\* lang-item registry named a trait that carries the lang attribute it was
\* asked about, the datum built for that trait carries the same tag.
C15_BridgeAgrees ==
    (IsWellKnownTraitFound /\ FoundTraitCarriesAttr) =>
        trait_datum_query(db, self_krate, call.ret.value.value).value.well_known =
            Some(call.args.well_known_trait)

\* The trait of the tag Copy was asked for in a crate whose lang item `copy`
\* is the trait Eq, which carries the attribute `copy`.
C15_Witness ==
    /\ IsWellKnownTraitFound /\ FoundTraitCarriesAttr
    /\ call.args.well_known_trait = "Copy"
    /\ call.ret.value = Some(Trait_to_chalk("Eq"))
    /\ db.lang_attr["Eq"] = Some("copy")

=============================================================================
